---- MODULE Spec2Model ----
(***************************************************************************)
(* Authorization and task-lifecycle core of the TaskManager server:        *)
(* AuthService (registration, team invitation tokens), TasksService (task   *)
(* reads, creation, update, deletion, status and checklist writes) and      *)
(* UsersService.create.                                                     *)
(*                                                                         *)
(* The database is the committed content of the user, team, user_teams,    *)
(* task and todo tables; TEAM_INVITE_TOKENS is the in-process map.  A      *)
(* request handler of TasksService is one action.  AuthService.register is *)
(* modelled await by await, because its claims are about interleavings.    *)
(*                                                                         *)
(* Not modelled: titles, descriptions, priorities, due dates, passwords,   *)
(* JWTs, todo ids, UpdateTaskDto.todos (a string[] that Object.assign would *)
(* copy over the Todo[] relation), and Task.teamId (the column the loaded  *)
(* relation Task.team is saved through).                                   *)
(***************************************************************************)
EXTENDS Integers, Sequences, FiniteSets, TLC

VARIABLES
  users,    \* user table: id -> [role, email]; role "none" = no such row
  teams,    \* team table and user_teams: id -> [owner, members]; owner 0 = no such row
  tasks,    \* task table with its todos: id -> task; status "none" = no such row
  tokens,   \* AuthService.TEAM_INVITE_TOKENS: token -> [adminId, teamId, expiresAt]
  now,      \* the clock read by new Date(), in hours
  nextId,   \* the auto-increment sequences and the count of uuids drawn
  regs,     \* the register() calls in flight: one record per client
  calls,    \* the updateTaskChecklist() calls in flight between their awaits
  last      \* the latest request answered, its response, and the one before it

vars == <<users, teams, tasks, tokens, now, nextId, regs, calls, last>>

----------------------------------------------------------------------------
(* Bounds of the model *)

MaxUsers == 3
MaxTeams == 2
MaxTasks == 1
MaxTodos == 2
MaxChecklist == 40
MaxLongChecklist == 201
MaxTokens == 2
MaxTicks == 2
TickHours == 24
MaxRegs == 2
MaxCalls == 1

UserIds == 1..MaxUsers
TeamIds == 1..MaxTeams
TaskIds == 1..MaxTasks
TokenIds == 1..MaxTokens
RegIds == 1..MaxRegs
ChecklistCalls == 1..MaxCalls
StatusCalls == (MaxCalls + 1)..(2 * MaxCalls)
CallIds == ChecklistCalls \cup StatusCalls

----------------------------------------------------------------------------
(* Enumerations *)

ADMIN == "admin"
USER == "user"

PENDING == "Pending"
IN_PROGRESS == "In Progress"
COMPLETED == "Completed"
Status == {PENDING, IN_PROGRESS, COMPLETED}

NoUser == [role |-> "none", email |-> ""]
NoTeam == [owner |-> 0, members |-> {}]
NoTask == [assignedTo |-> 0, createdBy |-> 0, team |-> 0, status |-> "none",
           progress |-> 0, todos |-> <<>>]
NoToken == [adminId |-> 0, teamId |-> 0, expiresAt |-> 0]

UserExists(u) == u \in UserIds /\ users[u].role # "none"
TeamExists(t) == t \in TeamIds /\ teams[t].owner # 0
TaskExists(id) == id \in TaskIds /\ tasks[id].status # "none"

\* user.teams: the teams joined through user_teams
UserTeams(u) == {t \in TeamIds : TeamExists(t) /\ u \in teams[t].members}

\* the teams found by {where: {owner: {id: u}}}
OwnedTeams(u) == {t \in TeamIds : TeamExists(t) /\ teams[t].owner = u}

----------------------------------------------------------------------------
(* IEEE-754 double arithmetic of  Math.round((done / total) * 100)          *)

MantissaBits == 53
DivBytes == 9

Pow2 == <<1, 2, 4, 8, 16, 32, 64, 128>>

\* bytes (most significant first) to bits (most significant first)
BytesToBits(bytes) ==
  [i \in 1..(8 * Len(bytes)) |->
     (bytes[((i - 1) \div 8) + 1] \div Pow2[8 - ((i - 1) % 8)]) % 2]

\* bits (a multiple of 8 of them) to bytes
BitsToBytes(bits) ==
  [j \in 1..(Len(bits) \div 8) |->
     LET b(i) == bits[8 * (j - 1) + i]
     IN 128 * b(1) + 64 * b(2) + 32 * b(3) + 16 * b(4)
        + 8 * b(5) + 4 * b(6) + 2 * b(7) + b(8)]

\* the first n base-256 digits of r / t after the point, and the remainder
RECURSIVE LongDivision(_, _, _, _)
LongDivision(r, t, n, acc) ==
  IF n = 0 THEN [bytes |-> acc, r |-> r]
  ELSE LongDivision((256 * r) % t, t, n - 1, Append(acc, (256 * r) \div t))

\* Round to nearest, ties to even, to MantissaBits significant bits.  bits
\* spell a positive integer N, most significant first; the value rounded is
\* N * 2^eLast, plus a nonzero tail below the last bit when sticky.
\* The result is m * 2^e with m a MantissaBits-bit integer.
RoundNearestEven(bits, sticky, eLast) ==
  LET n     == Len(bits)
      z     == (CHOOSE i \in 1..n : bits[i] = 1 /\ \A j \in 1..(i - 1) : bits[j] = 0) - 1
      kept  == [i \in 1..MantissaBits |-> bits[z + i]]
      guard == IF z + MantissaBits < n THEN bits[z + MantissaBits + 1] ELSE 0
      rest  == sticky \/ \E i \in (z + MantissaBits + 2)..n : bits[i] = 1
      up    == guard = 1 /\ (rest \/ kept[MantissaBits] = 1)
      e     == eLast + (n - (z + MantissaBits))
      zeros == {i \in 1..MantissaBits : kept[i] = 0}
  IN IF ~up THEN [m |-> kept, e |-> e]
     ELSE IF zeros = {}
          THEN [m |-> [i \in 1..MantissaBits |-> IF i = 1 THEN 1 ELSE 0], e |-> e + 1]
          ELSE LET lastZero == CHOOSE i \in zeros : \A j \in zeros : j <= i
               IN [m |-> [i \in 1..MantissaBits |->
                            IF i < lastZero THEN kept[i]
                            ELSE IF i = lastZero THEN 1 ELSE 0],
                   e |-> e]

\* the double c / t, for 0 < c <= t
FDiv(c, t) ==
  IF c = t
  THEN [m |-> [i \in 1..MantissaBits |-> IF i = 1 THEN 1 ELSE 0], e |-> 1 - MantissaBits]
  ELSE LET d == LongDivision(c, t, DivBytes, <<>>)
       IN RoundNearestEven(BytesToBits(d.bytes), d.r # 0, 0 - 8 * DivBytes)

\* bytes of (the integer spelled by bytes) * k, by a carry pass from the low end
RECURSIVE MulSmall(_, _, _, _, _)
MulSmall(bytes, k, i, carry, acc) ==
  IF i = 0 THEN <<carry>> \o acc
  ELSE LET v == bytes[i] * k + carry
       IN MulSmall(bytes, k, i - 1, v \div 256, <<v % 256>> \o acc)

\* the double x * k, for an integer 0 < k < 256
FMul(x, k) ==
  LET padded == <<0, 0, 0>> \o x.m
      p      == MulSmall(BitsToBytes(padded), k, Len(padded) \div 8, 0, <<>>)
  IN RoundNearestEven(BytesToBits(p), FALSE, x.e)

RECURSIVE BitsValue(_, _, _)
BitsValue(bits, n, acc) ==
  IF n = 0 THEN acc ELSE BitsValue(Tail(bits), n - 1, 2 * acc + Head(bits))

\* Math.round of a positive double: floor(x + 1/2)
MathRound(x) ==
  LET ib == MantissaBits + x.e
  IN IF ib < 0 THEN 0
     ELSE BitsValue(x.m, ib, 0) + (IF ib < MantissaBits THEN x.m[ib + 1] ELSE 0)

\* Math.round((done / total) * 100), total > 0
RoundedPercent(done, total) ==
  IF done = 0 THEN 0 ELSE MathRound(FMul(FDiv(done, total), 100))

\* the values of RoundedPercent, computed once
PercentTable ==
  [total \in 1..MaxChecklist |-> [done \in 0..total |-> RoundedPercent(done, total)]]

----------------------------------------------------------------------------
(* Todos *)

CompletedCount(todos) == Cardinality({i \in 1..Len(todos) : todos[i].completed})

\* task.todos.filter(completed).length / task.todos.length * 100, rounded
TodoProgress(todos) ==
  IF Len(todos) <= MaxChecklist
  THEN PercentTable[Len(todos)][CompletedCount(todos)]
  ELSE RoundedPercent(CompletedCount(todos), Len(todos))

----------------------------------------------------------------------------
(* TasksService: access helpers *)

Response(kind, message, id) == [kind |-> kind, message |-> message, id |-> id]

NoRequest == [assignedToId |-> 0, teamId |-> 0, status |-> "", hasProgress |-> FALSE,
              progress |-> 0]

NoPrior == [op |-> "", status |-> "", kind |-> "", id |-> 0]

NoLast == [op |-> "", actor |-> 0, req |-> NoRequest, res |-> Response("", "", 0),
           prior |-> NoPrior]

\* the record of a request answered; prior is the request answered before it
Answered(op, actor, req, res) ==
  [op |-> op, actor |-> actor, req |-> req, res |-> res,
   prior |-> [op |-> last.op, status |-> last.req.status, kind |-> last.res.kind,
              id |-> last.res.id]]

\* userHasAccessToTask
userHasAccessToTask(user, task) ==
  IF task.team = 0
  THEN task.assignedTo = user \/ task.createdBy = user
  ELSE IF users[user].role = ADMIN
       THEN task.team \in {t \in TeamIds : TeamExists(t) /\ teams[t].owner = user}
       ELSE task.assignedTo = user

\* userHasAccessToTeam
userHasAccessToTeam(user, team) ==
  IF users[user].role = ADMIN
  THEN teams[team].owner = user
  ELSE TeamExists(team) /\ user \in teams[team].members

\* getTaskById: the exception thrown, or "ok"
getTaskById(id, user) ==
  IF ~TaskExists(id) THEN Response("NotFound", "Task not found", id)
  ELSE IF ~userHasAccessToTask(user, tasks[id])
       THEN Response("Forbidden", "You do not have access to this task", id)
       ELSE Response("ok", "", id)

\* A mutation of sharedTeams: the query keeps the actor's teams, whether the
\* assignee is a member or not.
actorTeams(user, assignedUser) ==
  {t \in TeamIds : TeamExists(t) /\ user \in teams[t].members}

\* the query of createTask for the teams shared by the actor and the assignee
sharedTeams(user, assignedUser) ==
  {t \in TeamIds : TeamExists(t) /\ user \in teams[t].members
                   /\ assignedUser \in teams[t].members}

\* todos.map(text -> create({text, completed: false}))
NewTodos(texts) == [i \in 1..Len(texts) |-> [text |-> texts[i], completed |-> FALSE]]

----------------------------------------------------------------------------
(* TasksService.createTask *)

\* The assignment part of createTask: the exception thrown, or the assignee
\* and team of the task to save.  sharedTeams[0] of a query without ORDER BY
\* is any one of the shared teams.
CreateTaskPlan(dto, user) ==
  LET a  == dto.assignedToId
      t  == dto.teamId
      Ok(assignee, team) == [kind |-> "ok", message |-> "", assignedTo |-> assignee,
                             team |-> team]
      Err(kind, message) == [kind |-> kind, message |-> message, assignedTo |-> 0,
                             team |-> 0]
  IN IF a # 0 /\ ~UserExists(a)
     THEN {Err("NotFound", "Assigned user not found")}
     ELSE IF a # 0 /\ a # user
     THEN IF t # 0
          THEN IF ~TeamExists(t)
               THEN {Err("NotFound", "Team not found")}
               ELSE IF ~userHasAccessToTeam(user, t)
               THEN {Err("Forbidden", "You do not have access to this team")}
               ELSE IF t \notin UserTeams(a)
               THEN {Err("Forbidden", "Assigned user is not in the selected team")}
               ELSE {Ok(a, t)}
          ELSE IF sharedTeams(user, a) = {}
               THEN {Err("BadRequest",
                          "No shared team found with the assigned user. Please specify a team ID.")}
               ELSE {Ok(a, s) : s \in sharedTeams(user, a)}
     ELSE IF t # 0
          THEN IF ~TeamExists(t)
               THEN {Err("NotFound", "Team not found")}
               ELSE IF ~userHasAccessToTeam(user, t)
               THEN {Err("Forbidden", "You do not have access to this team")}
               ELSE {Ok(user, t)}
          ELSE {Ok(user, 0)}

\* A mutation of CreatedTask: the team saved is the body's teamId, not the
\* shared team found for the assignee.
CreatedTaskWithDtoTeam(dto, user, plan) ==
  [assignedTo |-> plan.assignedTo,
   createdBy  |-> user,
   team       |-> dto.teamId,
   status     |-> IF dto.status = "" THEN PENDING ELSE dto.status,
   progress   |-> IF dto.hasProgress THEN dto.progress ELSE 0,
   todos      |-> NewTodos(dto.todos)]

\* the row saved by createTask: status and progress are the dto's, or the
\* column defaults
CreatedTask(dto, user, plan) ==
  [assignedTo |-> plan.assignedTo,
   createdBy  |-> user,
   team       |-> plan.team,
   status     |-> IF dto.status = "" THEN PENDING ELSE dto.status,
   progress   |-> IF dto.hasProgress THEN dto.progress ELSE 0,
   todos      |-> NewTodos(dto.todos)]

RequestOf(dto) == [f \in DOMAIN NoRequest |-> dto[f]]

\* A mutation of createTask: the row is saved before the assignee and the
\* team are validated, so a request that fails leaves a task behind.
createTaskSavingFirst(dto, user) ==
  /\ UserExists(user)
  /\ nextId.task <= MaxTasks
  /\ \E plan \in CreateTaskPlan(dto, user) :
       /\ tasks' = [tasks EXCEPT ![nextId.task] =
                      CreatedTask(dto, user,
                                  IF plan.kind = "ok" THEN plan
                                  ELSE [plan EXCEPT !.assignedTo = user])]
       /\ nextId' = [nextId EXCEPT !.task = @ + 1]
       /\ last' = Answered("createTask", user, RequestOf(dto),
                            Response(plan.kind, plan.message,
                                     IF plan.kind = "ok" THEN nextId.task ELSE 0))
  /\ UNCHANGED <<users, teams, tokens, now, regs, calls>>

createTask(dto, user) ==
  /\ UserExists(user)
  /\ nextId.task <= MaxTasks
  /\ \E plan \in CreateTaskPlan(dto, user) :
       IF plan.kind = "ok"
       THEN /\ tasks' = [tasks EXCEPT ![nextId.task] = CreatedTask(dto, user, plan)]
            /\ nextId' = [nextId EXCEPT !.task = @ + 1]
            /\ last' = Answered("createTask", user, RequestOf(dto),
                                 Response("ok", "", nextId.task))
       ELSE /\ last' = Answered("createTask", user, RequestOf(dto),
                                 Response(plan.kind, plan.message, 0))
            /\ UNCHANGED <<tasks, nextId>>
  /\ UNCHANGED <<users, teams, tokens, now, regs, calls>>

----------------------------------------------------------------------------
(* TasksService.updateTask *)

\* A mutation of UpdatedProgress: the progress is recomputed from the todos
\* even when the body supplies one.
RecomputedProgress(task, dto) ==
  IF Len(task.todos) > 0 THEN TodoProgress(task.todos)
  ELSE IF dto.hasProgress THEN dto.progress ELSE task.progress

\* task.progress after Object.assign(task, updateTaskDto) and the recalculation
\* that runs only when the body has no progress and the task has todos
UpdatedProgress(task, dto) ==
  IF dto.hasProgress THEN dto.progress
  ELSE IF Len(task.todos) > 0 THEN TodoProgress(task.todos)
  ELSE task.progress

\* A mutation of UpdateTaskPlan: a personal task may be reassigned to any
\* existing user.
UpdateTaskPlanAnyAssignee(id, dto, user) ==
  LET found == getTaskById(id, user)
      task  == tasks[id]
      a     == dto.assignedToId
      t     == dto.teamId
      Err(kind, message) == [kind |-> kind, message |-> message, task |-> NoTask]
      \* task.team after the teamId block
      team1 == IF t # 0 THEN t ELSE task.team
      \* the assignee block runs when assignedToId differs from the assignee
      reassign == a # 0 /\ a # task.assignedTo
      assigned == IF reassign THEN a ELSE task.assignedTo
      \* Object.assign(task, updateTaskDto)
      status2   == IF dto.status = "" THEN task.status ELSE dto.status
      progress2 == UpdatedProgress(task, dto)
  IN IF found.kind # "ok" THEN Err(found.kind, found.message)
     ELSE IF t # 0 /\ ~TeamExists(t)
     THEN Err("NotFound", "Team not found")
     ELSE IF t # 0 /\ ~userHasAccessToTeam(user, t)
     THEN Err("Forbidden", "You do not have access to this team")
     ELSE IF t # 0 /\ a # 0 /\ ~UserExists(a)
     THEN Err("NotFound", "Assigned user not found")
     ELSE IF t # 0 /\ a # 0 /\ t \notin UserTeams(a)
     THEN Err("Forbidden", "Assigned user is not in the selected team")
     ELSE IF reassign /\ ~UserExists(a)
     THEN Err("NotFound", "Assigned user not found")
     ELSE IF reassign /\ team1 # 0 /\ team1 \notin UserTeams(a)
     THEN Err("Forbidden", "Assigned user is not in the task team")
     ELSE [kind |-> "ok", message |-> "",
           task |-> [task EXCEPT !.team = team1, !.assignedTo = assigned,
                                 !.status = status2, !.progress = progress2]]

\* the exception thrown by updateTask, or the task it saves
UpdateTaskPlan(id, dto, user) ==
  LET found == getTaskById(id, user)
      task  == tasks[id]
      a     == dto.assignedToId
      t     == dto.teamId
      Err(kind, message) == [kind |-> kind, message |-> message, task |-> NoTask]
      \* task.team after the teamId block
      team1 == IF t # 0 THEN t ELSE task.team
      \* the assignee block runs when assignedToId differs from the assignee
      reassign == a # 0 /\ a # task.assignedTo
      assigned == IF reassign THEN a ELSE task.assignedTo
      \* Object.assign(task, updateTaskDto)
      status2   == IF dto.status = "" THEN task.status ELSE dto.status
      progress2 == UpdatedProgress(task, dto)
  IN IF found.kind # "ok" THEN Err(found.kind, found.message)
     ELSE IF t # 0 /\ ~TeamExists(t)
     THEN Err("NotFound", "Team not found")
     ELSE IF t # 0 /\ ~userHasAccessToTeam(user, t)
     THEN Err("Forbidden", "You do not have access to this team")
     ELSE IF t # 0 /\ a # 0 /\ ~UserExists(a)
     THEN Err("NotFound", "Assigned user not found")
     ELSE IF t # 0 /\ a # 0 /\ t \notin UserTeams(a)
     THEN Err("Forbidden", "Assigned user is not in the selected team")
     ELSE IF reassign /\ ~UserExists(a)
     THEN Err("NotFound", "Assigned user not found")
     ELSE IF reassign /\ team1 # 0 /\ team1 \notin UserTeams(a)
     THEN Err("Forbidden", "Assigned user is not in the task team")
     ELSE IF reassign /\ team1 = 0 /\ a # user
     THEN Err("Forbidden", "You can only assign personal tasks to yourself")
     ELSE [kind |-> "ok", message |-> "",
           task |-> [task EXCEPT !.team = team1, !.assignedTo = assigned,
                                 !.status = status2, !.progress = progress2]]

updateTask(id, dto, user) ==
  /\ UserExists(user)
  /\ LET plan == UpdateTaskPlan(id, dto, user)
     IN /\ tasks' = IF plan.kind = "ok" THEN [tasks EXCEPT ![id] = plan.task] ELSE tasks
        /\ last' = Answered("updateTask", user, RequestOf(dto),
                             Response(plan.kind, plan.message, id))
  /\ UNCHANGED <<users, teams, tokens, now, nextId, regs, calls>>

----------------------------------------------------------------------------
(* TasksService.updateTaskStatus *)

SetAll(todos, value) == [i \in 1..Len(todos) |-> [todos[i] EXCEPT !.completed = value]]

\* A mutation of StatusWritten: completing is skipped for an empty checklist.
StatusWrittenSkippingEmpty(task, status) ==
  LET t1 == [task EXCEPT !.status = status]
      t2 == IF status = COMPLETED /\ Len(t1.todos) > 0
            THEN [t1 EXCEPT !.todos = SetAll(t1.todos, TRUE), !.progress = 100]
            ELSE t1
  IN IF status # COMPLETED /\ t2.progress = 100
     THEN [t2 EXCEPT !.progress = 0, !.todos = SetAll(t2.todos, FALSE)]
     ELSE t2

\* A mutation of StatusWritten: leaving Completed resets the progress and
\* keeps the todos as they are.
StatusWrittenKeepingTodos(task, status) ==
  LET t1 == [task EXCEPT !.status = status]
      t2 == IF status = COMPLETED
            THEN [t1 EXCEPT !.todos = SetAll(t1.todos, TRUE), !.progress = 100]
            ELSE t1
  IN IF status # COMPLETED /\ t2.progress = 100
     THEN [t2 EXCEPT !.progress = 0]
     ELSE t2

\* the task saved by updateTaskStatus
StatusWritten(task, status) ==
  LET t1 == [task EXCEPT !.status = status]
      \* task.todos is the loaded relation: an array, never undefined
      t2 == IF status = COMPLETED
            THEN [t1 EXCEPT !.todos = SetAll(t1.todos, TRUE), !.progress = 100]
            ELSE t1
  IN IF status # COMPLETED /\ t2.progress = 100
     THEN [t2 EXCEPT !.progress = 0, !.todos = SetAll(t2.todos, FALSE)]
     ELSE t2

\* A mutation of updateTaskStatus: the status of any stored task is written,
\* and the access check decides the answer only.
updateTaskStatusBeforeCheck(id, status, user) ==
  /\ UserExists(user)
  /\ LET found == getTaskById(id, user)
     IN /\ tasks' = IF TaskExists(id)
                    THEN [tasks EXCEPT ![id] = StatusWritten(tasks[id], status)]
                    ELSE tasks
        /\ last' = Answered("updateTaskStatus", user,
                             [NoRequest EXCEPT !.status = status], found)
  /\ UNCHANGED <<users, teams, tokens, now, nextId, regs, calls>>

updateTaskStatus(id, status, user) ==
  /\ UserExists(user)
  /\ LET found == getTaskById(id, user)
     IN /\ tasks' = IF found.kind = "ok"
                    THEN [tasks EXCEPT ![id] = StatusWritten(tasks[id], status)]
                    ELSE tasks
        /\ last' = Answered("updateTaskStatus", user,
                             [NoRequest EXCEPT !.status = status], found)
  /\ UNCHANGED <<users, teams, tokens, now, nextId, regs, calls>>

----------------------------------------------------------------------------
(* TasksService.updateTaskChecklist *)

\* A mutation of ChecklistReplaced: a full checklist leaves the task In
\* Progress.
ChecklistReplacedNeverCompleted(task, todoChecklist) ==
  LET todos == [i \in 1..Len(todoChecklist) |->
                  [text |-> todoChecklist[i].text,
                   completed |-> todoChecklist[i].completed]]
      progress == IF Len(todos) > 0 THEN TodoProgress(todos) ELSE 0
      status == IF progress > 0 THEN IN_PROGRESS ELSE PENDING
  IN [task EXCEPT !.todos = todos, !.progress = progress, !.status = status]

\* A mutation of ChecklistReplaced: the status is derived before the progress
\* is recomputed, from the progress stored.
ChecklistReplacedStaleStatus(task, todoChecklist) ==
  LET todos == [i \in 1..Len(todoChecklist) |->
                  [text |-> todoChecklist[i].text,
                   completed |-> todoChecklist[i].completed]]
      progress == IF Len(todos) > 0 THEN TodoProgress(todos) ELSE 0
      status == IF task.progress = 100 THEN COMPLETED
                ELSE IF task.progress > 0 THEN IN_PROGRESS
                ELSE PENDING
  IN [task EXCEPT !.todos = todos, !.progress = progress, !.status = status]

\* the task saved by updateTaskChecklist
ChecklistReplaced(task, todoChecklist) ==
  LET todos == [i \in 1..Len(todoChecklist) |->
                  [text |-> todoChecklist[i].text,
                   completed |-> todoChecklist[i].completed]]
      progress == IF Len(todos) > 0 THEN TodoProgress(todos) ELSE 0
      status == IF progress = 100 THEN COMPLETED
                ELSE IF progress > 0 THEN IN_PROGRESS
                ELSE PENDING
  IN [task EXCEPT !.todos = todos, !.progress = progress, !.status = status]

updateTaskChecklist(id, todoChecklist, user) ==
  /\ UserExists(user)
  /\ LET found == getTaskById(id, user)
     IN /\ tasks' = IF found.kind = "ok"
                    THEN [tasks EXCEPT ![id] = ChecklistReplaced(tasks[id], todoChecklist)]
                    ELSE tasks
        /\ last' = Answered("updateTaskChecklist", user, NoRequest, found)
  /\ UNCHANGED <<users, teams, tokens, now, nextId, regs, calls>>

----------------------------------------------------------------------------
(* TasksService.updateTaskChecklist, one action per await *)

\* the text of an item sent without one: the body is any[], nothing checks it
Missing == "undefined"

NoCall == [pc |-> "idle", id |-> 0, user |-> 0, todoChecklist |-> <<>>, task |-> NoTask]

\* await this.getTaskById(id, user): the exception, or the task as loaded
ChecklistLoad(c, id, todoChecklist, user) ==
  /\ calls[c].pc \in {"idle", "failed"}
  /\ UserExists(user)
  /\ LET found == getTaskById(id, user)
     IN IF found.kind = "ok"
        THEN /\ calls' = [calls EXCEPT ![c] =
                            [pc |-> "delete", id |-> id, user |-> user,
                             todoChecklist |-> todoChecklist, task |-> tasks[id]]]
             /\ UNCHANGED last
        ELSE /\ calls' = [calls EXCEPT ![c] = NoCall]
             /\ last' = Answered("updateTaskChecklist", user, NoRequest, found)
  /\ UNCHANGED <<users, teams, tasks, tokens, now, nextId, regs>>

\* await this.todosRepository.delete({task: {id}}): a statement of its own,
\* committed when it returns
ChecklistDeleteTodos(c) ==
  /\ calls[c].pc = "delete"
  /\ tasks' = [tasks EXCEPT ![calls[c].id].todos = <<>>]
  /\ calls' = [calls EXCEPT ![c].pc = "save"]
  /\ UNCHANGED <<users, teams, tokens, now, nextId, regs, last>>

\* await this.tasksRepository.save(task), the task loaded with the new todos,
\* progress and status: the INSERT of a todo without text violates NOT NULL
\* and the save writes nothing
ChecklistSave(c) ==
  /\ calls[c].pc = "save"
  /\ LET call == calls[c]
     IN IF \E i \in 1..Len(call.todoChecklist) : call.todoChecklist[i].text = Missing
        THEN /\ calls' = [calls EXCEPT ![c].pc = "failed"]
             /\ last' = Answered("updateTaskChecklist", call.user, NoRequest,
                                  Response("QueryFailed",
                                           "null value in column text violates not-null constraint",
                                           call.id))
             /\ UNCHANGED tasks
        ELSE /\ tasks' = [tasks EXCEPT ![call.id] =
                             ChecklistReplaced(call.task, call.todoChecklist)]
             /\ calls' = [calls EXCEPT ![c] = NoCall]
             /\ last' = Answered("updateTaskChecklist", call.user, NoRequest,
                                  Response("ok", "", call.id))
  /\ UNCHANGED <<users, teams, tokens, now, nextId, regs>>

----------------------------------------------------------------------------
(* TasksService.updateTaskStatus, one action per await *)

\* await this.getTaskById(id, user), then the assignments to the loaded task,
\* which run without an await between them
StatusLoad(c, id, status, user) ==
  /\ calls[c].pc \in {"idle", "failed"}
  /\ UserExists(user)
  /\ LET found == getTaskById(id, user)
     IN IF found.kind = "ok"
        THEN /\ calls' = [calls EXCEPT ![c] =
                            [pc |-> "saveStatus", id |-> id, user |-> user,
                             todoChecklist |-> <<>>,
                             task |-> StatusWritten(tasks[id], status)]]
             /\ UNCHANGED last
        ELSE /\ calls' = [calls EXCEPT ![c] = NoCall]
             /\ last' = Answered("updateTaskStatus", user,
                                  [NoRequest EXCEPT !.status = status], found)
  /\ UNCHANGED <<users, teams, tasks, tokens, now, nextId, regs>>

\* await this.tasksRepository.save(task): no transaction, no lock and no
\* version column, the task is written as this call holds it
StatusSave(c) ==
  /\ calls[c].pc = "saveStatus"
  /\ tasks' = [tasks EXCEPT ![calls[c].id] = calls[c].task]
  /\ calls' = [calls EXCEPT ![c] = NoCall]
  /\ last' = Answered("updateTaskStatus", calls[c].user,
                       [NoRequest EXCEPT !.status = calls[c].task.status],
                       Response("ok", "", calls[c].id))
  /\ UNCHANGED <<users, teams, tokens, now, nextId, regs>>

----------------------------------------------------------------------------
(* TasksService.getTaskById as a request, and TasksService.deleteTask *)

\* GET /tasks/:id
viewTask(id, user) ==
  /\ UserExists(user)
  /\ last' = Answered("getTaskById", user, NoRequest, getTaskById(id, user))
  /\ UNCHANGED <<users, teams, tasks, tokens, now, nextId, regs, calls>>

\* A mutation of DeleteTaskPlan: whoever can read the task may delete it.
DeleteTaskPlanForReaders(id, user) ==
  getTaskById(id, user)

\* the exception deleteTask throws, or "ok": getTaskById first, then only
\* admins or the creator may delete
DeleteTaskPlan(id, user) ==
  LET found == getTaskById(id, user)
  IN IF found.kind # "ok" THEN found
     ELSE IF users[user].role # ADMIN /\ tasks[id].createdBy # user
     THEN Response("Forbidden", "You can only delete tasks you created", id)
     ELSE found

\* tasksRepository.remove(task); its todos go with it (onDelete: CASCADE)
deleteTask(id, user) ==
  /\ UserExists(user)
  /\ LET plan == DeleteTaskPlan(id, user)
     IN /\ tasks' = IF plan.kind = "ok" THEN [tasks EXCEPT ![id] = NoTask] ELSE tasks
        /\ last' = Answered("deleteTask", user, NoRequest, plan)
  /\ UNCHANGED <<users, teams, tokens, now, nextId, regs, calls>>

----------------------------------------------------------------------------
(* TasksService.getTasks *)

\* teams.flatMap(team => team.members.map(member => member.id)) over the teams
\* the admin owns
OwnedTeamUserIds(user) ==
  UNION {teams[t].members : t \in {s \in TeamIds : TeamExists(s) /\ teams[s].owner = user}}

\* the ids of the tasks the query of getTasks selects
ListedTasks(user) ==
  IF users[user].role = ADMIN
  THEN {id \in TaskIds :
          /\ TaskExists(id)
          /\ \/ tasks[id].assignedTo \in OwnedTeamUserIds(user)
             \/ tasks[id].createdBy = user /\ tasks[id].team = 0}
  ELSE {id \in TaskIds : TaskExists(id) /\ tasks[id].assignedTo = user}

getTasks(user) ==
  /\ UserExists(user)
  /\ last' = Answered("getTasks", user, NoRequest,
                       [kind |-> "ok", message |-> "", id |-> 0, tasks |-> ListedTasks(user)])
  /\ UNCHANGED <<users, teams, tasks, tokens, now, nextId, regs, calls>>

----------------------------------------------------------------------------
(* UsersService.findAll *)

\* teamsRepository.find({where: [{owner}, {members}], relations: ['members']})
\* is one SELECT with one LEFT JOIN on user_teams, which loads the members
\* and carries the condition on them: a row (team, member) is kept when the
\* team's owner is the actor or the member is the actor.  The ids of
\* teams.flatMap(team => team.members) are the members of the rows kept.
TeamUserIds(user) ==
  {m \in UserIds :
     \E t \in TeamIds :
       /\ TeamExists(t) /\ m \in teams[t].members
       /\ teams[t].owner = user \/ m = user}

\* the ids of the users findAll returns: find({id: In(uniqueUserIds)}) for an
\* admin, find({id: user.id}) for anyone else
FoundUsers(user) ==
  IF users[user].role = ADMIN
  THEN {m \in TeamUserIds(user) : UserExists(m)}
  ELSE {user}

findAll(user) ==
  /\ UserExists(user)
  /\ last' = Answered("findAll", user, NoRequest,
                       [kind |-> "ok", message |-> "", id |-> 0, users |-> FoundUsers(user)])
  /\ UNCHANGED <<users, teams, tasks, tokens, now, nextId, regs, calls>>

----------------------------------------------------------------------------
(* UsersService.findOne and UsersService.update *)

\* teamsRepository.find({where: [{owner: {id: currentUser.id}, members: {id: user.id}},
\*                               {members: [{id: currentUser.id}, {id: user.id}]}]}):
\* the alternatives of a where array are joined by OR, at either depth
UserSharedTeams(id, currentUser) ==
  {t \in TeamIds :
     /\ TeamExists(t)
     /\ \/ teams[t].owner = currentUser /\ id \in teams[t].members
        \/ currentUser \in teams[t].members
        \/ id \in teams[t].members}

\* The exception findOne throws, or "ok" when it returns the user
FindOnePlan(id, currentUser) ==
  IF ~UserExists(id)
  THEN Response("NotFound", "User not found", 0)
  ELSE IF users[currentUser].role # ADMIN /\ currentUser # id
  THEN Response("Forbidden", "You can only view your own profile", 0)
  ELSE IF /\ users[currentUser].role = ADMIN /\ currentUser # id
          /\ UserSharedTeams(id, currentUser) = {}
  THEN Response("Forbidden", "You can only view users from your teams", 0)
  ELSE Response("ok", "", id)

findOne(id, currentUser) ==
  /\ UserExists(currentUser)
  /\ last' = Answered("findOne", currentUser, NoRequest, FindOnePlan(id, currentUser))
  /\ UNCHANGED <<users, teams, tasks, tokens, now, nextId, regs, calls>>

\* The exception update throws, or "ok" when it saves the user
UpdateUserPlan(id, updateUserDto, currentUser) ==
  IF FindOnePlan(id, currentUser).kind # "ok"
  THEN FindOnePlan(id, currentUser)
  ELSE IF /\ updateUserDto.email # "" /\ updateUserDto.email # users[id].email
          /\ \E u \in UserIds :
                UserExists(u) /\ users[u].email = updateUserDto.email /\ u # id
  THEN Response("Conflict", "User with this email already exists", 0)
  ELSE Response("ok", "", id)

\* Object.assign(user, updateUserDto); usersRepository.save(user): every field
\* the body carries is written, "" standing for a field the body leaves out
updateUser(id, updateUserDto, currentUser) ==
  /\ UserExists(currentUser)
  /\ LET plan == UpdateUserPlan(id, updateUserDto, currentUser)
     IN /\ IF plan.kind = "ok"
           THEN users' = [users EXCEPT
                            ![id] = [role  |-> IF updateUserDto.role = ""
                                               THEN @.role ELSE updateUserDto.role,
                                     email |-> IF updateUserDto.email = ""
                                               THEN @.email ELSE updateUserDto.email]]
           ELSE UNCHANGED users
        /\ last' = Answered("updateUser", currentUser, NoRequest, plan)
  /\ UNCHANGED <<teams, tasks, tokens, now, nextId, regs, calls>>

----------------------------------------------------------------------------
(* UsersService.create *)

\* The exception create throws, or the team the new user joins; adminTeams[0]
\* of a query without ORDER BY is any team the admin owns.
CreateUserPlan(email, adminUser) ==
  LET Err(kind, message) == [kind |-> kind, message |-> message, teamId |-> 0]
  IN IF users[adminUser].role # ADMIN
     THEN {Err("Forbidden", "Only admins can create users")}
     ELSE IF \E u \in UserIds : UserExists(u) /\ users[u].email = email
     THEN {Err("Conflict", "User with this email already exists")}
     ELSE IF OwnedTeams(adminUser) = {}
     THEN {Err("NotFound", "Admin does not have any teams")}
     ELSE {[kind |-> "ok", message |-> "", teamId |-> t] : t \in OwnedTeams(adminUser)}

\* role "" is a body without a role: createUserDto.role || UserRole.USER.
\* The email is stored as sent.
createUser(email, role, adminUser) ==
  /\ UserExists(adminUser)
  /\ nextId.user <= MaxUsers
  /\ \E plan \in CreateUserPlan(email, adminUser) :
       /\ IF plan.kind = "ok"
          THEN /\ users' = [users EXCEPT ![nextId.user] =
                              [role |-> IF role = "" THEN USER ELSE role, email |-> email]]
               /\ teams' = [teams EXCEPT ![plan.teamId].members = @ \cup {nextId.user}]
               /\ nextId' = [nextId EXCEPT !.user = @ + 1]
          ELSE UNCHANGED <<users, teams, nextId>>
       /\ last' = Answered("createUser", adminUser, NoRequest,
                            Response(plan.kind, plan.message,
                                     IF plan.kind = "ok" THEN nextId.user ELSE 0))
  /\ UNCHANGED <<tasks, tokens, now, regs, calls>>

----------------------------------------------------------------------------
(* AuthService: the invitation tokens *)

TokenTtlHours == 24

TokenStored(k) == k \in TokenIds /\ tokens[k].adminId # 0

\* A mutation of Expired: a token counts as expired at the instant of its
\* expiry already.
ExpiredOrDue(k) == now >= tokens[k].expiresAt

\* new Date() > tokenData.expiresAt
Expired(k) == now > tokens[k].expiresAt

\* The exception generateTeamInviteToken throws, or the team the token is
\* bound to; ownedTeams[0] of a query without ORDER BY is any owned team.
GenerateTokenPlan(adminId, teamId) ==
  LET Err(kind, message) == [kind |-> kind, message |-> message, teamId |-> 0]
  IN IF ~(UserExists(adminId) /\ users[adminId].role = ADMIN)
     THEN {Err("NotFound", "Admin not found or user is not an admin")}
     ELSE IF teamId # 0
     THEN IF ~TeamExists(teamId)
             \/ (teams[teamId].owner # adminId /\ adminId \notin teams[teamId].members)
          THEN {Err("Forbidden", "You do not have access to this team")}
          ELSE {[kind |-> "ok", message |-> "", teamId |-> teamId]}
     ELSE IF OwnedTeams(adminId) = {}
          THEN {Err("NotFound", "Admin does not own any teams")}
          ELSE {[kind |-> "ok", message |-> "", teamId |-> t] : t \in OwnedTeams(adminId)}

generateTeamInviteToken(adminId, teamId) ==
  /\ UserExists(adminId)
  /\ nextId.token <= MaxTokens
  /\ \E plan \in GenerateTokenPlan(adminId, teamId) :
       /\ IF plan.kind = "ok"
          THEN /\ tokens' = [tokens EXCEPT ![nextId.token] =
                               [adminId |-> adminId, teamId |-> plan.teamId,
                                expiresAt |-> now + TokenTtlHours]]
               /\ nextId' = [nextId EXCEPT !.token = @ + 1]
          ELSE UNCHANGED <<tokens, nextId>>
       /\ last' = Answered("generateTeamInviteToken", adminId,
                            [NoRequest EXCEPT !.teamId = teamId],
                            Response(plan.kind, plan.message,
                                     IF plan.kind = "ok" THEN nextId.token ELSE 0))
  /\ UNCHANGED <<users, teams, tasks, now, regs, calls>>

\* A mutation of AdminTokens: every token of the map is listed.
AllTokens(adminId) ==
  {[token |-> k, expiresAt |-> tokens[k].expiresAt] : k \in {j \in TokenIds : TokenStored(j)}}

\* getAdminTokens: the tokens of the map whose adminId is the caller's
AdminTokens(adminId) ==
  {[token |-> k, expiresAt |-> tokens[k].expiresAt] :
     k \in {j \in TokenIds : TokenStored(j) /\ tokens[j].adminId = adminId}}

\* GET auth/team/invite-tokens: the answer carries the list
getAdminTokens(adminId) ==
  /\ UserExists(adminId)
  /\ last' = Answered("getAdminTokens", adminId, NoRequest,
                       [kind |-> "ok", message |-> "", id |-> 0,
                        tokens |-> AdminTokens(adminId)])
  /\ UNCHANGED <<users, teams, tasks, tokens, now, nextId, regs, calls>>

\* A mutation of Revocable: the issuer of the token is not compared.
RevocableByAnyone(token, adminId) == TokenStored(token)

\* the test of revokeTeamInviteToken: tokenData && tokenData.adminId === adminId
Revocable(token, adminId) == TokenStored(token) /\ tokens[token].adminId = adminId

\* revokeTeamInviteToken returns true or false, and POST
\* auth/team/revoke-invite-token turns that into one of two messages; id is
\* the token of the request
revokeTeamInviteToken(token, adminId) ==
  /\ UserExists(adminId)
  /\ IF Revocable(token, adminId)
     THEN /\ tokens' = [tokens EXCEPT ![token] = NoToken]
          /\ last' = Answered("revokeTeamInviteToken", adminId, NoRequest,
                               Response("true", "Team invitation token revoked successfully",
                                        token))
     ELSE /\ UNCHANGED tokens
          /\ last' = Answered("revokeTeamInviteToken", adminId, NoRequest,
                               Response("false",
                                        "Token not found or you do not have permission to revoke it",
                                        token))
  /\ UNCHANGED <<users, teams, tasks, now, nextId, regs, calls>>

\* cleanupExpiredTokens deletes every entry with now > expiresAt; id is the
\* count it returns
cleanupExpiredTokens ==
  LET expired == {k \in TokenIds : TokenStored(k) /\ Expired(k)}
  IN /\ tokens' = [k \in TokenIds |-> IF k \in expired THEN NoToken ELSE tokens[k]]
     /\ last' = Answered("cleanupExpiredTokens", 0, NoRequest,
                          Response("ok", "", Cardinality(expired)))
     /\ UNCHANGED <<users, teams, tasks, now, nextId, regs, calls>>

\* time passes
Tick ==
  /\ now < MaxTicks * TickHours
  /\ now' = now + TickHours
  /\ UNCHANGED <<users, teams, tasks, tokens, nextId, regs, calls, last>>

----------------------------------------------------------------------------
(* AuthService.register, one action per await *)

RawEmails == {"a@x", "A@x ", "b@x", "c@x"}

\* email.toLowerCase().trim()
Normalize(email) == IF email = "A@x " THEN "a@x" ELSE email

NoReg == [pc |-> "idle", email |-> "", token |-> 0, fieldsOk |-> TRUE,
          existing |-> FALSE, grantTeam |-> 0, members |-> {}, userId |-> 0,
          role |-> "none", teamId |-> 0, add |-> {}, remove |-> {},
          res |-> Response("", "", 0), overlap |-> {}, used |-> {}]

InFlight(p) == regs[p].pc \notin {"idle", "done"}

\* the latest call of client p has returned the new user
Succeeded(p) == regs[p].pc = "done" /\ regs[p].res.kind = "ok"

\* the tokens that registrations have succeeded with, as far as the clients'
\* latest calls tell
Redeemed == {regs[q].token : q \in {r \in RegIds : Succeeded(r) /\ regs[r].token # 0}}

\* the catch block: rollbackTransaction, rethrow.  Nothing the transaction
\* wrote is kept; what was done to TEAM_INVITE_TOKENS stays.
Rejected(p, kind, message) ==
  [NoReg EXCEPT !.pc = "done", !.email = regs[p].email, !.token = regs[p].token,
                !.overlap = regs[p].overlap, !.used = regs[p].used,
                !.res = Response(kind, message, 0)]

\* A client calls register: startTransaction, then the check of the fields.
\* overlap (the calls in flight together with this one) and used (the tokens
\* redeemed before it began) record the history the properties speak of.
RegBegin(p, email, token, fieldsOk) ==
  /\ ~InFlight(p)
  /\ nextId.user <= MaxUsers
  /\ LET others == {q \in RegIds \ {p} : InFlight(q)}
         mine   == [NoReg EXCEPT !.email = email, !.token = token,
                                 !.fieldsOk = fieldsOk, !.overlap = others,
                                 !.used = Redeemed]
     IN regs' = [q \in RegIds |->
                   IF q = p
                   THEN IF fieldsOk
                        THEN [mine EXCEPT !.pc = "findEmail"]
                        ELSE [mine EXCEPT !.pc = "done",
                                !.res = Response("BadRequest",
                                          "Name, email, and password are required", 0)]
                   ELSE IF q \in others
                        THEN [regs[q] EXCEPT !.overlap = @ \cup {p}]
                        ELSE regs[q]]
  /\ UNCHANGED <<users, teams, tasks, tokens, now, nextId, calls, last>>

\* A mutation of RegFindEmail: the lookup finds nobody, and the unique index
\* alone guards the email.
RegFindEmailFindingNobody(p) ==
  /\ regs[p].pc = "findEmail"
  /\ regs' = [regs EXCEPT ![p].existing = FALSE, ![p].pc = "validateToken"]
  /\ UNCHANGED <<users, teams, tasks, tokens, now, nextId, calls, last>>

\* await findOne(User, {where: {email}}): the email as sent, not normalised
RegFindEmail(p) ==
  /\ regs[p].pc = "findEmail"
  /\ regs' = [regs EXCEPT ![p].existing =
                             \E u \in UserIds : UserExists(u) /\ users[u].email = regs[p].email,
                          ![p].pc = "validateToken"]
  /\ UNCHANGED <<users, teams, tasks, tokens, now, nextId, calls, last>>

\* A mutation of RegValidateToken: the expiry of the token is not looked at.
RegValidateTokenIgnoringExpiry(p) ==
  /\ regs[p].pc = "validateToken"
  /\ LET k == regs[p].token
     IN IF regs[p].existing
        THEN /\ regs' = [regs EXCEPT ![p] =
                           Rejected(p, "Conflict", "User with this email already exists")]
             /\ UNCHANGED tokens
        ELSE IF k = 0
        THEN /\ regs' = [regs EXCEPT ![p].pc = "saveUser", ![p].role = ADMIN]
             /\ UNCHANGED tokens
        ELSE IF ~TokenStored(k)
        THEN /\ regs' = [regs EXCEPT ![p] =
                           Rejected(p, "BadRequest", "Invalid or expired team invitation token")]
             /\ UNCHANGED tokens
        ELSE /\ regs' = [regs EXCEPT ![p].pc = "findAdmin", ![p].grantTeam = tokens[k].teamId,
                                     ![p].userId = tokens[k].adminId]
             /\ UNCHANGED tokens
  /\ UNCHANGED <<users, teams, tasks, now, nextId, calls, last>>

\* the continuation: the Conflict, then validateTeamInviteToken up to its
\* first await (the lookup in the map and the expiry check)
RegValidateToken(p) ==
  /\ regs[p].pc = "validateToken"
  /\ LET k == regs[p].token
     IN IF regs[p].existing
        THEN /\ regs' = [regs EXCEPT ![p] =
                           Rejected(p, "Conflict", "User with this email already exists")]
             /\ UNCHANGED tokens
        ELSE IF k = 0
        THEN /\ regs' = [regs EXCEPT ![p].pc = "saveUser", ![p].role = ADMIN]
             /\ UNCHANGED tokens
        ELSE IF ~TokenStored(k)
        THEN /\ regs' = [regs EXCEPT ![p] =
                           Rejected(p, "BadRequest", "Invalid or expired team invitation token")]
             /\ UNCHANGED tokens
        ELSE IF Expired(k)
        THEN /\ tokens' = [tokens EXCEPT ![k] = NoToken]
             /\ regs' = [regs EXCEPT ![p] =
                           Rejected(p, "BadRequest", "Invalid or expired team invitation token")]
        ELSE /\ regs' = [regs EXCEPT ![p].pc = "findAdmin", ![p].grantTeam = tokens[k].teamId,
                                     ![p].userId = tokens[k].adminId]
             /\ UNCHANGED tokens
  /\ UNCHANGED <<users, teams, tasks, now, nextId, calls, last>>

\* await findOne(User, {id: tokenData.adminId, role: ADMIN})
RegFindAdmin(p) ==
  /\ regs[p].pc = "findAdmin"
  /\ LET adminId == regs[p].userId
     IN IF UserExists(adminId) /\ users[adminId].role = ADMIN
        THEN regs' = [regs EXCEPT ![p].pc = "findTeam", ![p].userId = 0]
        ELSE regs' = [regs EXCEPT ![p] =
                        Rejected(p, "BadRequest", "Invalid or expired team invitation token")]
  /\ UNCHANGED <<users, teams, tasks, tokens, now, nextId, calls, last>>

\* A mutation of RegFindTeam: a valid token is taken out of the map as soon
\* as it has been validated.
RegFindTeamConsuming(p) ==
  /\ regs[p].pc = "findTeam"
  /\ tokens' = [tokens EXCEPT ![regs[p].token] = NoToken]
  /\ IF TeamExists(regs[p].grantTeam)
     THEN regs' = [regs EXCEPT ![p].pc = "loadTeam", ![p].role = USER]
     ELSE regs' = [regs EXCEPT ![p] =
                     Rejected(p, "BadRequest", "Invalid or expired team invitation token")]
  /\ UNCHANGED <<users, teams, tasks, now, nextId, calls, last>>

\* A mutation of RegFindTeam: the role stays the default, admin, when the
\* token is valid.
RegFindTeamKeepingRole(p) ==
  /\ regs[p].pc = "findTeam"
  /\ IF TeamExists(regs[p].grantTeam)
     THEN /\ regs' = [regs EXCEPT ![p].pc = "loadTeam", ![p].role = ADMIN]
          /\ UNCHANGED tokens
     ELSE /\ tokens' = [tokens EXCEPT ![regs[p].token] = NoToken]
          /\ regs' = [regs EXCEPT ![p] =
                        Rejected(p, "BadRequest", "Invalid or expired team invitation token")]
  /\ UNCHANGED <<users, teams, tasks, now, nextId, calls, last>>

\* await findOne(Team, {id: tokenData.teamId}): a valid answer leaves the
\* token in the map
RegFindTeam(p) ==
  /\ regs[p].pc = "findTeam"
  /\ IF TeamExists(regs[p].grantTeam)
     THEN /\ regs' = [regs EXCEPT ![p].pc = "loadTeam", ![p].role = USER]
          /\ UNCHANGED tokens
     ELSE /\ tokens' = [tokens EXCEPT ![regs[p].token] = NoToken]
          /\ regs' = [regs EXCEPT ![p] =
                        Rejected(p, "BadRequest", "Invalid or expired team invitation token")]
  /\ UNCHANGED <<users, teams, tasks, now, nextId, calls, last>>

\* await queryRunner.manager.findOne(Team, {relations: ['members']})
RegLoadTeam(p) ==
  /\ regs[p].pc = "loadTeam"
  /\ IF TeamExists(regs[p].grantTeam)
     THEN regs' = [regs EXCEPT ![p].pc = "saveUser",
                               ![p].members = teams[regs[p].grantTeam].members]
     ELSE regs' = [regs EXCEPT ![p] =
                     Rejected(p, "BadRequest",
                              "The team associated with this invitation no longer exists")]
  /\ UNCHANGED <<users, teams, tasks, tokens, now, nextId, calls, last>>

\* another transaction holds an uncommitted row with the same unique email
EmailLocked(p) ==
  \E q \in RegIds \ {p} :
     /\ regs[q].pc \in {"saveTeam", "commit"}
     /\ Normalize(regs[q].email) = Normalize(regs[p].email)

\* A mutation of RegSaveUser: the INSERT of the user is committed on its own,
\* outside the transaction.
RegSaveUserOutsideTransaction(p) ==
  /\ regs[p].pc = "saveUser"
  /\ ~EmailLocked(p)
  /\ nextId.user <= MaxUsers
  /\ nextId' = [nextId EXCEPT !.user = @ + 1]
  /\ IF \E u \in UserIds : UserExists(u) /\ users[u].email = Normalize(regs[p].email)
     THEN /\ regs' = [regs EXCEPT ![p] =
                        Rejected(p, "QueryFailed",
                                 "duplicate key value violates unique constraint")]
          /\ UNCHANGED users
     ELSE /\ regs' = [regs EXCEPT ![p].pc = "saveTeam", ![p].userId = nextId.user]
          /\ users' = [users EXCEPT ![nextId.user] =
                         [role |-> regs[p].role, email |-> Normalize(regs[p].email)]]
  /\ UNCHANGED <<teams, tasks, tokens, now, calls, last>>

\* await bcrypt.hash, then await queryRunner.manager.save(user): the INSERT
\* draws an id, and fails on the unique email
RegSaveUser(p) ==
  /\ regs[p].pc = "saveUser"
  /\ ~EmailLocked(p)
  /\ nextId.user <= MaxUsers
  /\ nextId' = [nextId EXCEPT !.user = @ + 1]
  /\ IF \E u \in UserIds : UserExists(u) /\ users[u].email = Normalize(regs[p].email)
     THEN regs' = [regs EXCEPT ![p] =
                     Rejected(p, "QueryFailed", "duplicate key value violates unique constraint")]
     ELSE regs' = [regs EXCEPT ![p].pc = "saveTeam", ![p].userId = nextId.user]
  /\ UNCHANGED <<users, teams, tasks, tokens, now, calls, last>>

\* A mutation of RegSaveTeam: the default team is saved without members.
RegSaveTeamWithoutMembers(p) ==
  /\ regs[p].pc = "saveTeam"
  /\ IF regs[p].token # 0
     THEN LET wanted == regs[p].members \cup {regs[p].userId}
              stored == teams[regs[p].grantTeam].members
          IN /\ regs' = [regs EXCEPT ![p].pc = "commit", ![p].teamId = regs[p].grantTeam,
                                     ![p].add = wanted \ stored,
                                     ![p].remove = stored \ wanted]
             /\ UNCHANGED nextId
     ELSE /\ nextId.team <= MaxTeams
          /\ regs' = [regs EXCEPT ![p].pc = "commit", ![p].teamId = nextId.team]
          /\ nextId' = [nextId EXCEPT !.team = @ + 1]
  /\ UNCHANGED <<users, teams, tasks, tokens, now, calls, last>>

\* await save(team) with the new member pushed on the members read before:
\* user_teams rows are inserted and deleted to match that array.  Or, with
\* no token, await save(defaultTeam) and await save(savedUser).
RegSaveTeam(p) ==
  /\ regs[p].pc = "saveTeam"
  /\ IF regs[p].token # 0
     THEN LET wanted == regs[p].members \cup {regs[p].userId}
              stored == teams[regs[p].grantTeam].members
          IN /\ regs' = [regs EXCEPT ![p].pc = "commit", ![p].teamId = regs[p].grantTeam,
                                     ![p].add = wanted \ stored,
                                     ![p].remove = stored \ wanted]
             /\ UNCHANGED nextId
     ELSE /\ nextId.team <= MaxTeams
          /\ regs' = [regs EXCEPT ![p].pc = "commit", ![p].teamId = nextId.team,
                                  ![p].add = {regs[p].userId}]
          /\ nextId' = [nextId EXCEPT !.team = @ + 1]
  /\ UNCHANGED <<users, teams, tasks, tokens, now, calls, last>>

\* await queryRunner.commitTransaction(): the rows written become visible
RegCommit(p) ==
  /\ regs[p].pc = "commit"
  /\ LET r == regs[p]
     IN /\ users' = [users EXCEPT ![r.userId] =
                       [role |-> r.role, email |-> Normalize(r.email)]]
        /\ teams' = [teams EXCEPT ![r.teamId] =
                       [owner   |-> IF r.token # 0 THEN @.owner ELSE r.userId,
                        members |-> (@.members \ r.remove) \cup r.add]]
        /\ regs' = [regs EXCEPT ![p] =
                      [NoReg EXCEPT !.pc = "done", !.email = r.email, !.token = r.token,
                                    !.overlap = r.overlap, !.used = r.used,
                                    !.userId = r.userId,
                                    !.role = r.role, !.teamId = r.teamId,
                                    !.res = Response("ok", "", r.userId)]]
  /\ UNCHANGED <<tasks, tokens, now, nextId, calls, last>>

----------------------------------------------------------------------------
(* Initial states *)

\* the empty database of a fresh deployment
InitRegister ==
  /\ users = [u \in UserIds |-> NoUser]
  /\ teams = [t \in TeamIds |-> NoTeam]
  /\ tasks = [id \in TaskIds |-> NoTask]
  /\ tokens = [k \in TokenIds |-> NoToken]
  /\ now = 0
  /\ nextId = [user |-> 1, team |-> 1, task |-> 1, token |-> 1]
  /\ regs = [p \in RegIds |-> NoReg]
  /\ calls = [c \in CallIds |-> NoCall]
  /\ last = NoLast

\* Databases that registrations leave behind.  Admin 1 owns the default team 1
\* and has invited member 2 with token 1.
Users(member2, user3) ==
  [u \in UserIds |-> IF u = 1 THEN [role |-> ADMIN, email |-> "a@x"]
                     ELSE IF u = 2 THEN member2
                     ELSE IF u = 3 THEN user3
                     ELSE NoUser]

\* ... and nobody else has registered (a state of SpecRegister)
OneTeam ==
  [users  |-> Users([role |-> USER, email |-> "b@x"], NoUser),
   teams  |-> [t \in TeamIds |-> IF t = 1 THEN [owner |-> 1, members |-> {1, 2}] ELSE NoTeam],
   nextId |-> [user |-> 3, team |-> 2, task |-> 1, token |-> 2]]

\* ... and a second admin 3 has registered, with its default team 2 (a state
\* of SpecRegister)
TwoTeams ==
  [users  |-> Users([role |-> USER, email |-> "b@x"], [role |-> ADMIN, email |-> "c@x"]),
   teams  |-> [t \in TeamIds |-> IF t = 1 THEN [owner |-> 1, members |-> {1, 2}]
                                 ELSE IF t = 2 THEN [owner |-> 3, members |-> {3}]
                                 ELSE NoTeam],
   nextId |-> [user |-> 4, team |-> 3, task |-> 1, token |-> 2]]

\* ... and member 3 has registered with token 1 concurrently with member 2,
\* and saved the team without member 2 (a state of SpecConcurrent)
TeamWithoutMember2 ==
  [users  |-> Users([role |-> USER, email |-> "b@x"], [role |-> USER, email |-> "c@x"]),
   teams  |-> [t \in TeamIds |-> IF t = 1 THEN [owner |-> 1, members |-> {1, 3}] ELSE NoTeam],
   nextId |-> [user |-> 4, team |-> 2, task |-> 1, token |-> 2]]

Populations == {OneTeam, TwoTeams, TeamWithoutMember2}

\* the first admin has registered and has issued a token for the default team
InitInvited ==
  /\ users = [u \in UserIds |-> IF u = 1 THEN [role |-> ADMIN, email |-> "a@x"] ELSE NoUser]
  /\ teams = [t \in TeamIds |-> IF t = 1 THEN [owner |-> 1, members |-> {1}] ELSE NoTeam]
  /\ tasks = [id \in TaskIds |-> NoTask]
  /\ tokens = [k \in TokenIds |->
                 IF k = 1 THEN [adminId |-> 1, teamId |-> 1, expiresAt |-> TokenTtlHours]
                 ELSE NoToken]
  /\ now = 0
  /\ nextId = [user |-> 2, team |-> 2, task |-> 1, token |-> 2]
  /\ regs = [p \in RegIds |-> NoReg]
  /\ calls = [c \in CallIds |-> NoCall]
  /\ last = NoLast

\* token 1 is still in the map: a registration does not remove it
InitDatabase(populations) ==
  /\ \E pop \in populations :
       /\ users = pop.users
       /\ teams = pop.teams
       /\ nextId = pop.nextId
  /\ tasks = [id \in TaskIds |-> NoTask]
  /\ tokens = [k \in TokenIds |->
                 IF k = 1 THEN [adminId |-> 1, teamId |-> 1, expiresAt |-> TokenTtlHours]
                 ELSE NoToken]
  /\ now = 0
  /\ regs = [p \in RegIds |-> NoReg]
  /\ calls = [c \in CallIds |-> NoCall]
  /\ last = NoLast

InitPopulated == InitDatabase(Populations)

InitOneTeam == InitDatabase({OneTeam})

----------------------------------------------------------------------------
(* Request bodies *)

ProgressInputs == {0, 50, 100, 150}

TaskDto(a, t, status, hasProgress, progress, todos) ==
  [assignedToId |-> a, teamId |-> t, status |-> status, hasProgress |-> hasProgress,
   progress |-> progress, todos |-> todos]

\* bodies that vary the assignee and the team
AssignmentDtos ==
  {TaskDto(a, t, "", FALSE, 0, <<>>) : a \in 0..MaxUsers, t \in 0..MaxTeams}

ProgressFields ==
  {<<FALSE, 0>>} \cup {<<TRUE, n>> : n \in ProgressInputs}

TextLists(n) == UNION {[1..k -> {"a"}] : k \in 0..n}

\* bodies that create a personal task or a task of team 1 assigned to its
\* member 2, with or without todos, a status and a progress
LifecycleCreateDtos ==
  {TaskDto(at[1], at[2], s, pf[1], pf[2], texts) :
     at \in {<<0, 0>>, <<2, 1>>}, s \in {""} \cup Status, pf \in ProgressFields,
     texts \in TextLists(MaxTodos)}

\* bodies that vary status and progress
LifecycleUpdateDtos ==
  {TaskDto(0, 0, s, pf[1], pf[2], <<>>) : s \in {""} \cup Status, pf \in ProgressFields}

\* the checklists of up to n items over the given texts
Checklists(n, texts) ==
  UNION {[1..k -> [text : texts, completed : BOOLEAN]] : k \in 0..n}

\* Lengths of the long checklists: 100 * done / total is a half, where
\* Math.round and the double product meet, only when 8 divides total.
ChecklistSizes == (0..MaxTodos) \cup {8 * k : k \in 1..(MaxChecklist \div 8)}

\* one checklist for each of these lengths and each number of items completed
CountedChecklists ==
  {[i \in 1..c[2] |-> [text |-> "a", completed |-> i <= c[1]]] :
     c \in {d \in (0..MaxChecklist) \X ChecklistSizes : d[1] <= d[2]}}

----------------------------------------------------------------------------
(* Specifications *)

\* task assignment and access
CreateAssigned == \E user \in UserIds, dto \in AssignmentDtos : createTask(dto, user)

UpdateAssigned ==
  \E id \in TaskIds, user \in UserIds, dto \in AssignmentDtos : updateTask(id, dto, user)

ViewTask == \E id \in TaskIds, user \in UserIds : viewTask(id, user)

DeleteTask == \E id \in TaskIds, user \in UserIds : deleteTask(id, user)

\* an admin creates user c@x, or tries the taken a@x, with or without a role
CreateUser ==
  \E email \in {"a@x", "c@x"}, role \in {"", USER, ADMIN}, adminUser \in UserIds :
    createUser(email, role, adminUser)

Next ==
  \/ CreateAssigned
  \/ UpdateAssigned
  \/ ViewTask
  \/ DeleteTask
  \/ CreateUser

Spec == InitPopulated /\ [][Next]_vars

\* the task lifecycle: status, progress and checklist
CreateTask == \E user \in UserIds, dto \in LifecycleCreateDtos : createTask(dto, user)

UpdateTask ==
  \E id \in TaskIds, user \in UserIds, dto \in LifecycleUpdateDtos :
    updateTask(id, dto, user)

UpdateTaskStatus ==
  \E id \in TaskIds, user \in UserIds, status \in Status : updateTaskStatus(id, status, user)

UpdateTaskChecklist ==
  \E id \in TaskIds, user \in UserIds, todoChecklist \in Checklists(MaxTodos, {"a"}) :
    updateTaskChecklist(id, todoChecklist, user)

NextLifecycle ==
  \/ CreateTask
  \/ UpdateTask
  \/ UpdateTaskStatus
  \/ UpdateTaskChecklist

SpecLifecycle == InitOneTeam /\ [][NextLifecycle]_vars

\* checklist replacement over long checklists
CreatePersonalTask ==
  \E user \in UserIds : createTask(TaskDto(0, 0, "", FALSE, 0, <<>>), user)

ReplaceChecklist ==
  \E id \in TaskIds, user \in UserIds, todoChecklist \in CountedChecklists :
    updateTaskChecklist(id, todoChecklist, user)

NextChecklist ==
  \/ CreatePersonalTask
  \/ ReplaceChecklist

SpecChecklist == InitOneTeam /\ [][NextChecklist]_vars

\* updates of other fields of a task with a long checklist
ReplaceLongChecklist ==
  \E id \in TaskIds, user \in UserIds,
     todoChecklist \in {c \in CountedChecklists : Len(c) = MaxChecklist} :
    updateTaskChecklist(id, todoChecklist, user)

\* a body with no progress, with or without a status
UpdateFields ==
  \E id \in TaskIds, user \in UserIds, status \in {""} \cup Status :
    updateTask(id, TaskDto(0, 0, status, FALSE, 0, <<>>), user)

NextRecompute ==
  \/ CreatePersonalTask
  \/ ReplaceLongChecklist
  \/ UpdateFields

SpecRecompute == InitOneTeam /\ [][NextRecompute]_vars

\* registration and invitation tokens; the register calls come one after the
\* other, from one client
RegisterSteps ==
  \E p \in RegIds :
    \/ RegFindEmail(p)
    \/ RegValidateToken(p)
    \/ RegFindAdmin(p)
    \/ RegFindTeam(p)
    \/ RegLoadTeam(p)
    \/ RegSaveUser(p)
    \/ RegSaveTeam(p)
    \/ RegCommit(p)

RegisterAlone ==
  \E email \in RawEmails, token \in 0..MaxTokens, fieldsOk \in BOOLEAN :
    /\ \A q \in RegIds : ~InFlight(q)
    /\ RegBegin(1, email, token, fieldsOk)

GenerateTeamInviteToken ==
  \E adminId \in UserIds, teamId \in 0..MaxTeams : generateTeamInviteToken(adminId, teamId)

NextRegister ==
  \/ RegisterAlone
  \/ RegisterSteps
  \/ GenerateTeamInviteToken
  \/ Tick

SpecRegister == InitRegister /\ [][NextRegister]_vars

\* checklist replacement await by await, next to readers of the task
ReplaceInSteps ==
  \E c \in ChecklistCalls, id \in TaskIds, user \in UserIds,
     todoChecklist \in Checklists(MaxTodos, {"a", Missing}) :
    ChecklistLoad(c, id, todoChecklist, user)

ReplaceSteps ==
  \E c \in ChecklistCalls : ChecklistDeleteTodos(c) \/ ChecklistSave(c)

NextReplaceSteps ==
  \/ CreatePersonalTask
  \/ ReplaceInSteps
  \/ ReplaceSteps
  \/ ViewTask

SpecReplaceSteps == InitOneTeam /\ [][NextReplaceSteps]_vars

\* the management of invitation tokens by the admins, among them admins
\* created by POST /users
GetAdminTokens == \E adminId \in UserIds : getAdminTokens(adminId)

RevokeTeamInviteToken ==
  \E token \in TokenIds, adminId \in UserIds : revokeTeamInviteToken(token, adminId)

NextTokens ==
  \/ CreateUser
  \/ GenerateTeamInviteToken
  \/ GetAdminTokens
  \/ RevokeTeamInviteToken
  \/ cleanupExpiredTokens
  \/ Tick

SpecTokens == InitPopulated /\ [][NextTokens]_vars

\* every operation that writes a task, by every user of every population
NextGuarded ==
  \/ CreateAssigned
  \/ UpdateAssigned
  \/ UpdateTaskStatus
  \/ UpdateTaskChecklist
  \/ DeleteTask

SpecGuarded == InitPopulated /\ [][NextGuarded]_vars

\* the task lists of the users, next to the assignment of tasks
GetTasks == \E user \in UserIds : getTasks(user)

NextListed ==
  \/ CreateAssigned
  \/ UpdateAssigned
  \/ GetTasks

SpecListed == InitPopulated /\ [][NextListed]_vars

\* checklist replacement over the shortest and the longest checklists, where
\* one item weighs less than half a percent: none, one, two, all but one or
\* all of the items are completed
LongSizes == {1, MaxLongChecklist - 1, MaxLongChecklist}

LongChecklists ==
  {[i \in 1..c[2] |-> [text |-> "a", completed |-> i <= c[1]]] :
     c \in {d \in (0..MaxLongChecklist) \X LongSizes :
              d[1] \in {0, 1, 2, d[2] - 1, d[2]}}}

ReplaceVeryLongChecklist ==
  \E id \in TaskIds, user \in UserIds, todoChecklist \in LongChecklists :
    updateTaskChecklist(id, todoChecklist, user)

NextLongChecklist ==
  \/ CreatePersonalTask
  \/ ReplaceVeryLongChecklist

SpecLongChecklist == InitOneTeam /\ [][NextLongChecklist]_vars

\* one updateTaskChecklist call and one updateTaskStatus call at a time, on
\* the same task, their awaits interleaved
ReplaceConcurrently ==
  \E c \in ChecklistCalls, id \in TaskIds, user \in UserIds,
     todoChecklist \in Checklists(MaxTodos, {"a"}) :
    ChecklistLoad(c, id, todoChecklist, user)

SetStatusConcurrently ==
  \E c \in StatusCalls, id \in TaskIds, user \in UserIds, status \in Status :
    StatusLoad(c, id, status, user)

UpdateSteps ==
  \/ \E c \in ChecklistCalls : ChecklistDeleteTodos(c) \/ ChecklistSave(c)
  \/ \E c \in StatusCalls : StatusSave(c)

NextInterleaved ==
  \/ CreatePersonalTask
  \/ ReplaceConcurrently
  \/ SetStatusConcurrently
  \/ UpdateSteps

SpecInterleaved == InitOneTeam /\ [][NextInterleaved]_vars

\* the users an actor reaches, among them admins created by POST /users
FindAll == \E user \in UserIds : findAll(user)

FindOne == \E id \in UserIds, currentUser \in UserIds : findOne(id, currentUser)

UpdateUser ==
  \E id \in UserIds, currentUser \in UserIds, email \in {"", "c@x"}, role \in {"", USER, ADMIN} :
    updateUser(id, [email |-> email, role |-> role], currentUser)

NextUsers ==
  \/ CreateUser
  \/ FindAll
  \/ FindOne
  \/ UpdateUser

SpecUsers == InitPopulated /\ [][NextUsers]_vars

\* register calls running concurrently, with and without the token that
\* admin 1 has issued for the default team
RegisterConcurrently ==
  \E p \in RegIds, email \in {"b@x", "c@x"}, token \in 0..1 :
    RegBegin(p, email, token, TRUE)

NextConcurrent ==
  \/ RegisterConcurrently
  \/ RegisterSteps

SpecConcurrent == InitInvited /\ [][NextConcurrent]_vars

----------------------------------------------------------------------------
(* Properties of the invitation tokens *)

InvalidToken == Response("BadRequest", "Invalid or expired team invitation token", 0)

\* the answers that say the email is taken
EmailTaken(p) == regs[p].res.kind \in {"Conflict", "QueryFailed"}

\* C1: an invitation token is single-use.  A register call that presents a
\* token some registration had already succeeded with when the call began,
\* with an email that is not taken, ends with the invalid-token error.
TokenIsSingleUse ==
  \A p \in RegIds :
    (regs[p].pc = "done" /\ regs[p].token \in regs[p].used /\ ~EmailTaken(p))
      => regs[p].res = InvalidToken

\* the latest calls of p and q ran at the same time, with the same token and
\* different emails that are not taken
RanTogether(p, q) ==
  /\ p # q
  /\ regs[p].pc = "done" /\ regs[q].pc = "done"
  /\ ~EmailTaken(p) /\ ~EmailTaken(q)
  /\ q \in regs[p].overlap /\ p \in regs[q].overlap
  /\ regs[p].token # 0 /\ regs[p].token = regs[q].token
  /\ Normalize(regs[p].email) # Normalize(regs[q].email)

\* C2: of two register calls that present the same valid token and run
\* concurrently, exactly one succeeds and the other ends with the
\* invalid-token error; both never succeed.
ExactlyOneRedeems ==
  \A p, q \in RegIds :
    RanTogether(p, q)
      => \/ Succeeded(p) /\ regs[q].res = InvalidToken
         \/ Succeeded(q) /\ regs[p].res = InvalidToken

----------------------------------------------------------------------------
(* Properties of the task lifecycle *)

\* 100 * c / t rounded to the nearest integer, a half rounded up
RoundHalfUp(c, t) == IF t = 0 THEN 0 ELSE (200 * c + t) \div (2 * t)

\* the latest request was op, answered without an exception
Done(op) == last.op = op /\ last.res.kind = "ok"

AllTodos(task, value) == \A i \in 1..Len(task.todos) : task.todos[i].completed = value

\* status follows progress: Pending at 0, Completed at 100, In Progress between
StatusFollowsProgress(task) ==
  /\ task.status = PENDING <=> task.progress = 0
  /\ task.status = IN_PROGRESS <=> (0 < task.progress /\ task.progress < 100)
  /\ task.status = COMPLETED <=> task.progress = 100

\* C3: after a checklist replacement the stored progress is
\* round-half-up(100 * completed / total), 0 for an empty checklist, and the
\* stored status follows the progress.
ChecklistProgressIsRoundHalfUp ==
  Done("updateTaskChecklist") =>
    LET task == tasks[last.res.id]
    IN /\ task.progress = RoundHalfUp(CompletedCount(task.todos), Len(task.todos))
       /\ StatusFollowsProgress(task)

\* C4: every task without a team is assigned to its creator.
PersonalTaskAssignedToCreator ==
  \A id \in TaskIds :
    (TaskExists(id) /\ tasks[id].team = 0) => tasks[id].assignedTo = tasks[id].createdBy

\* a personal task has been through a successful updateTask
PersonalTaskUpdated ==
  /\ Done("updateTask")
  /\ tasks[last.res.id].team = 0
  /\ tasks[last.res.id].assignedTo = tasks[last.res.id].createdBy

\* C5: every task with a team is assigned to a member of that team.
TeamTaskAssignedToMember ==
  \A id \in TaskIds :
    (TaskExists(id) /\ tasks[id].team # 0)
      => tasks[id].assignedTo \in teams[tasks[id].team].members

\* an updateTask that supplied a teamId and no assignedToId has moved a task
\* into a team
TaskMovedIntoTeam ==
  /\ Done("updateTask")
  /\ last.req.teamId # 0 /\ last.req.assignedToId = 0
  /\ tasks[last.res.id].team = last.req.teamId
  /\ tasks[last.res.id].assignedTo \in teams[last.req.teamId].members

\* C6, as claimed: every stored task has status Completed iff progress 100,
\* and status Pending iff progress 0.
StatusAndProgressConsistent ==
  \A id \in TaskIds :
    TaskExists(id) =>
      /\ tasks[id].status = COMPLETED <=> tasks[id].progress = 100
      /\ tasks[id].status = PENDING <=> tasks[id].progress = 0

\* C6, amended: right after a checklist replacement the task has status
\* Completed iff progress 100 and status Pending iff progress 0; right after
\* a status write it has status Completed iff progress 100.
ConsistentAfterStatusOrChecklistWrite ==
  /\ Done("updateTaskChecklist") =>
       /\ tasks[last.res.id].status = COMPLETED <=> tasks[last.res.id].progress = 100
       /\ tasks[last.res.id].status = PENDING <=> tasks[last.res.id].progress = 0
  /\ Done("updateTaskStatus") =>
       (tasks[last.res.id].status = COMPLETED <=> tasks[last.res.id].progress = 100)

\* a checklist replacement with every item completed has completed a task
ChecklistCompletedTask ==
  /\ Done("updateTaskChecklist")
  /\ tasks[last.res.id].status = COMPLETED
  /\ tasks[last.res.id].progress = 100
  /\ Len(tasks[last.res.id].todos) > 0

\* C7: the progress of every task is an integer from 0 to 100.
ProgressInRange ==
  \A id \in TaskIds : TaskExists(id) => tasks[id].progress \in 0..100

\* C8: a status write to Completed leaves the task Completed, with progress
\* 100 and every todo completed, an empty checklist included.
CompletedWriteCompletesAll ==
  (Done("updateTaskStatus") /\ last.req.status = COMPLETED) =>
    LET task == tasks[last.res.id]
    IN task.status = COMPLETED /\ task.progress = 100 /\ AllTodos(task, TRUE)

\* a task with an empty checklist has been written Completed
EmptyTaskCompleted ==
  /\ Done("updateTaskStatus") /\ last.req.status = COMPLETED
  /\ Len(tasks[last.res.id].todos) = 0
  /\ tasks[last.res.id].progress = 100

\* the latest request wrote Pending to the task the request before it had
\* written Completed to
CompletedThenPending ==
  /\ Done("updateTaskStatus") /\ last.req.status = PENDING
  /\ last.prior = [op |-> "updateTaskStatus", status |-> COMPLETED, kind |-> "ok",
                   id |-> last.res.id]

\* C9: a status write to Completed followed by a status write to Pending ends
\* with status Pending, progress 0 and every todo not completed.
PendingAfterCompletedResets ==
  CompletedThenPending =>
    LET task == tasks[last.res.id]
    IN task.status = PENDING /\ task.progress = 0 /\ AllTodos(task, FALSE)

\* Completed then Pending has been written to a task with todos
TaskWithTodosReset ==
  /\ CompletedThenPending
  /\ Len(tasks[last.res.id].todos) > 0
  /\ AllTodos(tasks[last.res.id], FALSE)

\* C10: an updateTask that supplies a progress and no status stores exactly
\* that progress, not one recomputed from the todos, and leaves the status
\* as it was stored.
ProgressWriteKeepsStatus ==
  [][(last'.op = "updateTask" /\ last'.res.kind = "ok"
      /\ last'.req.hasProgress /\ last'.req.status = "")
     => /\ tasks'[last'.res.id].progress = last'.req.progress
        /\ tasks'[last'.res.id].status = tasks[last'.res.id].status]_vars

\* a progress has been written to a task whose todos say another
ProgressWrittenAgainstTodos ==
  /\ Done("updateTask")
  /\ last.req.hasProgress /\ last.req.status = ""
  /\ Len(tasks[last.res.id].todos) > 0
  /\ tasks[last.res.id].progress = last.req.progress
  /\ tasks[last.res.id].progress # TodoProgress(tasks[last.res.id].todos)

\* C11: an updateTask that supplies no progress, on a task with todos, sets
\* the progress to 100 * completed / total of the todos, rounded, and leaves
\* the status as supplied in the same update, or as stored when none is.
UpdateRecomputesProgress ==
  [][(last'.op = "updateTask" /\ last'.res.kind = "ok" /\ ~last'.req.hasProgress
      /\ Len(tasks[last'.res.id].todos) > 0)
     => LET before == tasks[last'.res.id]
            after  == tasks'[last'.res.id]
        IN /\ after.progress = RoundHalfUp(CompletedCount(before.todos), Len(before.todos))
           /\ after.status = IF last'.req.status = "" THEN before.status
                             ELSE last'.req.status]_vars

\* C12: checklist replacement is idempotent.  A replacement that follows a
\* replacement of the same task and brings the same items (the todos stored
\* by the first are its items) leaves status, progress and todos as the
\* first left them.
ChecklistReplacementIdempotent ==
  [][(Done("updateTaskChecklist")
      /\ last'.op = "updateTaskChecklist" /\ last'.res.kind = "ok"
      /\ last'.res.id = last.res.id
      /\ tasks'[last.res.id].todos = tasks[last.res.id].todos)
     => tasks'[last.res.id] = tasks[last.res.id]]_vars

\* a checklist with items has been put on the same task twice running, the
\* second time with the status and progress the first had derived from it
ChecklistReplacedTwice ==
  /\ Done("updateTaskChecklist")
  /\ last.prior = [op |-> "updateTaskChecklist", status |-> "", kind |-> "ok",
                   id |-> last.res.id]
  /\ Len(tasks[last.res.id].todos) > 0
  /\ tasks[last.res.id] = ChecklistReplaced(tasks[last.res.id], tasks[last.res.id].todos)

----------------------------------------------------------------------------
(* Properties of registration *)

\* C13: a registration that presents a valid token issued for team T creates
\* a user with role user, never admin, adds it to the members of T, and
\* creates no team and no ownership.
TokenRegistrationCreatesMember ==
  [][\A p \in RegIds :
       (regs[p].pc = "commit" /\ regs'[p].pc = "done" /\ regs[p].token # 0)
         => LET k == regs[p].token
                T == regs[p].grantTeam
                u == regs'[p].userId
            IN /\ TokenStored(k) => tokens[k].teamId = T
               /\ ~UserExists(u) /\ users'[u].role = USER
               /\ \A v \in UserIds \ {u} : users'[v] = users[v]
               /\ u \in teams'[T].members
               /\ \A t \in TeamIds : teams'[t].owner = teams[t].owner
               /\ \A t \in TeamIds \ {T} : teams'[t] = teams[t]]_vars

\* a registration with a token has returned a new user, who is a member of
\* the token's team with role user and owns no team
MemberRegistered ==
  \E p \in RegIds :
    /\ Succeeded(p) /\ regs[p].token # 0
    /\ TokenStored(regs[p].token) /\ tokens[regs[p].token].teamId = regs[p].teamId
    /\ users[regs[p].userId].role = USER
    /\ regs[p].userId \in teams[regs[p].teamId].members
    /\ OwnedTeams(regs[p].userId) = {}

----------------------------------------------------------------------------
(* Properties of access to tasks *)

\* who may read a task, as the specification states it: a personal task its
\* assignee or creator; a team task the admin who owns the team, or the
\* assignee whatever their role
MayReadTask(user, task) ==
  IF task.team = 0
  THEN user \in {task.assignedTo, task.createdBy}
  ELSE \/ users[user].role = ADMIN /\ teams[task.team].owner = user
       \/ task.assignedTo = user

\* C14: getTaskById on an existing task succeeds exactly when the task has no
\* team and the actor is its assignee or creator, or the task has a team and
\* the actor is the admin owning the team or is the assignee, whatever their
\* role; in every other case it fails with Forbidden.
ReadAllowedExactlyWhenStated ==
  (last.op = "getTaskById" /\ TaskExists(last.res.id))
    => IF MayReadTask(last.actor, tasks[last.res.id])
       THEN last.res.kind = "ok"
       ELSE last.res.kind = "Forbidden"

\* C15: createTask with an assignee other than the actor creates a task only
\* when the actor is an admin who owns the task's team; every such request by
\* a member fails.
AssigningOthersNeedsOwningAdmin ==
  (Done("createTask") /\ last.req.assignedToId \notin {0, last.actor})
    => /\ users[last.actor].role = ADMIN
       /\ teams[tasks[last.res.id].team].owner = last.actor

\* the failures a createTask request of the actor calls for: the assignee or
\* the team named does not exist, the actor lacks access to the team or the
\* assignee is not a member of it, no team is named and none is shared
FailedPreconditions(req, actor) ==
  LET a == req.assignedToId
      t == req.teamId
      other == a \notin {0, actor} /\ UserExists(a)
  IN {kind \in {"NotFound", "Forbidden", "BadRequest"} :
        \/ /\ kind = "NotFound"
           /\ (a # 0 /\ ~UserExists(a)) \/ (t # 0 /\ ~TeamExists(t))
        \/ /\ kind = "Forbidden"
           /\ TeamExists(t)
           /\ ~userHasAccessToTeam(actor, t) \/ (other /\ a \notin teams[t].members)
        \/ /\ kind = "BadRequest"
           /\ t = 0 /\ other
           /\ ~\E s \in TeamIds : TeamExists(s) /\ {actor, a} \subseteq teams[s].members}

CreatorCanAlwaysDelete ==
  [][\A id \in TaskIds :
       (/\ last'.op = "deleteTask" /\ last'.res.id = id
        /\ TaskExists(id) /\ tasks[id].createdBy = last'.actor)
         => last'.res.kind = "ok" /\ tasks'[id] = NoTask]_vars

\* who may delete a task: its creator, or an admin with access to its team
MayDeleteTask(user, task) ==
  \/ task.createdBy = user
  \/ users[user].role = ADMIN /\ task.team # 0 /\ userHasAccessToTeam(user, task.team)

\* C21: a task is removed only by a deleteTask of its creator or of an admin
\* with access to its team; every other deleteTask on the task fails with
\* Forbidden and leaves the task and its todos in place.
OnlyCreatorOrTeamAdminDeletes ==
  [][\A id \in TaskIds :
       /\ (TaskExists(id) /\ tasks'[id] = NoTask)
            => /\ last'.op = "deleteTask" /\ last'.res.id = id
               /\ MayDeleteTask(last'.actor, tasks[id])
       /\ (/\ last'.op = "deleteTask" /\ last'.res.id = id /\ TaskExists(id)
           /\ ~MayDeleteTask(last'.actor, tasks[id]))
            => last'.res.kind = "Forbidden" /\ tasks' = tasks]_vars

\* the assignee of a team task, who can read it and did not create it, has
\* asked to delete it and has been refused; the task and its creator's row
\* are in place
DeleteRefusedForAssignee ==
  /\ last.op = "deleteTask" /\ last.res.kind = "Forbidden"
  /\ last.res.message = "You can only delete tasks you created"
  /\ TaskExists(last.res.id)
  /\ tasks[last.res.id].assignedTo = last.actor
  /\ tasks[last.res.id].createdBy # last.actor

----------------------------------------------------------------------------
(* Properties of the management of invitation tokens *)

\* C22: generateTeamInviteToken adds a token to the store only when adminId
\* is an admin and owns the token's team, the team named or one of the teams
\* the admin owns when none is named; a call that fails leaves the store
\* unchanged.
TokenIssuedOnlyByOwningAdmin ==
  [][/\ \A k \in TokenIds :
          (~TokenStored(k) /\ tokens'[k] # NoToken)
            => /\ last'.op = "generateTeamInviteToken" /\ last'.res.id = k
               /\ tokens'[k].adminId = last'.actor
               /\ users[last'.actor].role = ADMIN
               /\ teams[tokens'[k].teamId].owner = last'.actor
               /\ last'.req.teamId \in {0, tokens'[k].teamId}
     /\ (last'.op = "generateTeamInviteToken" /\ last' # last /\ last'.res.kind # "ok")
          => tokens' = tokens]_vars

\* C23: generateTeamInviteToken of an admin fails with Forbidden when no team
\* is named and the admin owns no team, and with NotFound when the team
\* named does not exist.
TokenIssueFailureKinds ==
  (last.op = "generateTeamInviteToken" /\ users[last.actor].role = ADMIN)
    => /\ (last.req.teamId = 0 /\ OwnedTeams(last.actor) = {})
            => last.res.kind = "Forbidden"
       /\ (last.req.teamId # 0 /\ ~TeamExists(last.req.teamId))
            => last.res.kind = "NotFound"

RevokeRemovesOwnTokenOnly ==
  [][(last'.op = "revokeTeamInviteToken" /\ last' # last)
       => LET k == last'.res.id
              own == TokenStored(k) /\ tokens[k].adminId = last'.actor
          IN /\ last'.res.kind = IF own THEN "true" ELSE "false"
             /\ own => tokens'[k] = NoToken
             /\ ~own => tokens' = tokens
             /\ \A j \in TokenIds \ {k} : tokens'[j] = tokens[j]]_vars

\* an admin has revoked a token of theirs: it is gone, and a token of another
\* admin is still in the store
OwnTokenRevoked ==
  /\ last.op = "revokeTeamInviteToken" /\ last.res.kind = "true"
  /\ ~TokenStored(last.res.id)
  /\ \E j \in TokenIds : TokenStored(j) /\ tokens[j].adminId # last.actor

\* the store as admin b may know it: the tokens b has issued, and nothing
\* where another admin's token is
OwnStore(b) ==
  [k \in TokenIds |-> IF tokens[k].adminId = b THEN tokens[k] ELSE NoToken]

\* C26: what an admin b observes from revokeTeamInviteToken and
\* getAdminTokens depends on b's own tokens only, so it is the same in two
\* stores that differ in the tokens of other admins: revoking another
\* admin's token answers as revoking a token that does not exist and changes
\* nothing, and getAdminTokens(b) lists exactly b's tokens and removes none.
TokenAnswersDependOnOwnTokens ==
  [][LET b   == last'.actor
         own == OwnStore(b)
     IN /\ (last'.op = "revokeTeamInviteToken" /\ last' # last)
             => /\ last'.res =
                     IF own[last'.res.id] # NoToken
                     THEN Response("true", "Team invitation token revoked successfully",
                                   last'.res.id)
                     ELSE Response("false",
                                   "Token not found or you do not have permission to revoke it",
                                   last'.res.id)
                /\ \A j \in TokenIds : own[j] = NoToken => tokens'[j] = tokens[j]
        /\ (last'.op = "getAdminTokens" /\ last' # last)
             => /\ last'.res.tokens =
                     {[token |-> k, expiresAt |-> own[k].expiresAt] :
                        k \in {j \in TokenIds : own[j] # NoToken}}
                /\ tokens' = tokens]_vars

\* an admin has asked to revoke a token that another admin issued and that
\* is in the store: the answer is the one for a token that does not exist,
\* and the token is still there
ForeignTokenNotRevealed ==
  /\ last.op = "revokeTeamInviteToken"
  /\ TokenStored(last.res.id) /\ tokens[last.res.id].adminId # last.actor
  /\ users[last.actor].role = ADMIN
  /\ last.res = Response("false",
                         "Token not found or you do not have permission to revoke it",
                         last.res.id)

\* the tokens whose expiry is before the current time
PastExpiry == {k \in TokenIds : TokenStored(k) /\ tokens[k].expiresAt < now}

\* C27: cleanupExpiredTokens removes exactly the tokens whose expiry is
\* before the current time, returns the number removed, and leaves every
\* other token and all users, teams and tasks unchanged.
CleanupRemovesExactlyExpired ==
  [][(last'.op = "cleanupExpiredTokens" /\ last' # last)
       => /\ \A k \in TokenIds :
               tokens'[k] = IF k \in PastExpiry THEN NoToken ELSE tokens[k]
          /\ last'.res.id = Cardinality(PastExpiry)
          /\ UNCHANGED <<users, teams, tasks>>]_vars

\* a cleanup has removed one token and has left one that expires at this
\* very instant
CleanupKeptTokenDueNow ==
  /\ last.op = "cleanupExpiredTokens" /\ last.res.id = 1
  /\ \E k \in TokenIds : TokenStored(k) /\ tokens[k].expiresAt = now
  /\ \E k \in TokenIds : k < nextId.token /\ ~TokenStored(k)

----------------------------------------------------------------------------
(* Properties of the register transaction *)

\* the steps of register after the validation of the token
AfterValidation == {"loadTeam", "saveUser", "saveTeam", "commit"}

\* C28: no invitation token leaves the store through a registration without
\* the account being committed: a token is removed either by the commit of
\* the registration that presents it, or by a validation that refuses it as
\* expired or as naming a team that is gone; and a registration that fails
\* after the validation of its token leaves the store as it is.
NoTokenConsumedWithoutAccount ==
  [][/\ \A k \in TokenIds :
          (TokenStored(k) /\ tokens'[k] = NoToken)
            => \E p \in RegIds :
                 /\ regs[p].token = k /\ InFlight(p) /\ regs'[p].pc = "done"
                 /\ \/ regs[p].pc = "commit" /\ regs'[p].res.kind = "ok"
                       /\ users'[regs'[p].userId].role # "none"
                    \/ /\ regs[p].pc \notin AfterValidation
                       /\ regs'[p].res = InvalidToken
                       /\ Expired(k) \/ ~TeamExists(tokens[k].teamId)
     /\ \A p \in RegIds :
          (/\ regs[p].pc \in AfterValidation /\ regs[p].token # 0
           /\ regs'[p].pc = "done" /\ regs'[p].res.kind # "ok")
            => tokens' = tokens]_vars

\* a registration with a valid token has failed after the validation, on the
\* unique email, and the token is still in the store
FailedAfterValidationKeepsToken ==
  \E p \in RegIds :
    /\ regs[p].pc = "done" /\ regs[p].res.kind = "QueryFailed"
    /\ TokenStored(regs[p].token) /\ ~Expired(regs[p].token)
    /\ ~\E u \in UserIds : UserExists(u) /\ users[u].email = regs[p].email

\* C29: registration is all-or-nothing.  A register call that fails, at
\* whatever step, leaves the users and the teams with their members as they
\* were; users and teams change only in the step that commits a register
\* call, which stores the new user together with its default team, or
\* together with its membership of the token's team.
RegistrationAllOrNothing ==
  [][/\ \A p \in RegIds :
          (regs'[p] # regs[p] /\ regs'[p].pc = "done" /\ regs'[p].res.kind # "ok")
            => users' = users /\ teams' = teams
     /\ (users' # users \/ teams' # teams)
          => \E p \in RegIds :
               LET u == regs'[p].userId
                   t == regs'[p].teamId
               IN /\ regs[p].pc = "commit" /\ Succeeded(p)'
                  /\ ~UserExists(u) /\ users'[u].role # "none"
                  /\ IF regs[p].token = 0
                     THEN /\ ~TeamExists(t)
                          /\ teams'[t] = [owner |-> u, members |-> {u}]
                          /\ users'[u].role = ADMIN
                     ELSE /\ TeamExists(t) /\ u \notin teams[t].members
                          /\ u \in teams'[t].members]_vars

\* on an empty database a register call with a token that is not in the
\* store has failed, and there is still no user and no team
RejectedRegistrationLeftNothing ==
  \E p \in RegIds :
    /\ regs[p].pc = "done" /\ regs[p].res = InvalidToken
    /\ \A u \in UserIds : ~UserExists(u)
    /\ \A t \in TeamIds : ~TeamExists(t)

----------------------------------------------------------------------------
(* Properties of checklist replacement under concurrency and failure *)

\* C30: checklist replacement is atomic.  While an updateTaskChecklist call
\* is past its delete, and after its save has failed, the stored task, which
\* is what a reader gets, is the task as the call loaded it or the task with
\* the new todos, progress and status, never the old task without its todos.
ChecklistReplacementAtomic ==
  \A c \in CallIds :
    calls[c].pc \in {"save", "failed"}
      => tasks[calls[c].id] \in
           {calls[c].task, ChecklistReplaced(calls[c].task, calls[c].todoChecklist)}

----------------------------------------------------------------------------
(* Properties of the users service *)

\* the users an actor reaches, as the specification states it: for an admin
\* the members of every team the admin owns or has joined, for a member the
\* member alone
UsersReachableBy(actor) ==
  IF users[actor].role = ADMIN
  THEN UNION {teams[t].members :
                t \in {s \in TeamIds : TeamExists(s) /\ (teams[s].owner = actor
                                                          \/ actor \in teams[s].members)}}
  ELSE {actor}

\* C31: findAll returns, for an admin, exactly the users who are members of
\* a team the admin owns or has joined, and for a member exactly the member.
FindAllReturnsReachableUsers ==
  last.op = "findAll" => last.res.users = UsersReachableBy(last.actor)

----------------------------------------------------------------------------
(* Properties of registration and of the users it creates *)

MemberChangesNoRole ==
  [][users[last'.actor].role = USER
       => \A u \in UserIds : users'[u].role = users[u].role]_vars

----------------------------------------------------------------------------
(* Properties of the task operations *)

Writers == {"updateTask", "updateTaskStatus", "updateTaskChecklist", "deleteTask"}

\* C33: updateTask, updateTaskStatus, updateTaskChecklist and deleteTask change
\* no task that getTaskById denies to the actor, and on such a task they fail
\* with the NotFound or Forbidden of getTaskById.
DeniedActorChangesNothing ==
  [][last'.op \in Writers
       => \A id \in TaskIds :
            getTaskById(id, last'.actor).kind # "ok"
              => /\ tasks'[id] = tasks[id]
                 /\ last'.res.id = id
                      => /\ last'.res.kind = getTaskById(id, last'.actor).kind
                         /\ last'.res.kind \in {"NotFound", "Forbidden"}
                         /\ tasks' = tasks]_vars

\* each of the four operations has been refused on a stored task the actor
\* cannot view
WriterRefused(op) ==
  /\ last.op = op /\ last.res.kind = "Forbidden"
  /\ TaskExists(last.res.id)
  /\ getTaskById(last.res.id, last.actor).kind = "Forbidden"

DeniedWriteRefused ==
  /\ WriterRefused("updateTaskChecklist")
  /\ last.prior.op = "deleteTask" /\ last.prior.kind = "Forbidden"

\* C34: updateTaskStatus to a status other than Completed, on a task whose
\* stored status is not Completed, changes the status only: the progress and
\* the completed flags of the todos stay as they were.
StatusChangeKeepsProgress ==
  [][\A id \in TaskIds :
       (/\ last'.op = "updateTaskStatus" /\ last'.res.kind = "ok" /\ last'.res.id = id
        /\ last'.req.status # COMPLETED
        /\ tasks[id].status # COMPLETED)
         => tasks'[id] = [tasks[id] EXCEPT !.status = last'.req.status]]_vars

StatusMatchesCompletedCount ==
  (Done("updateTaskChecklist") /\ Len(tasks[last.res.id].todos) >= 1)
    => LET task == tasks[last.res.id]
       IN /\ task.status = COMPLETED => CompletedCount(task.todos) = Len(task.todos)
          /\ task.status = PENDING => CompletedCount(task.todos) = 0

\* C37: an updateTaskStatus call and an updateTaskChecklist call that run
\* concurrently on one task leave the task that running them one after the
\* other leaves.  When the status call saves, the stored task is either as
\* no call left it since this one loaded it, or as a checklist replacement
\* left it; a replacement sets todos, progress and status whatever they were.
\* Run one after the other, the calls leave the status change applied to the
\* stored task, or the replacement's task, which is the stored task.  The
\* save looked at is the one that ends the last of the calls.
ConcurrentUpdatesSerialize ==
  [][\A c \in CallIds :
       (/\ calls[c].pc = "saveStatus" /\ calls'[c].pc # "saveStatus"
        /\ \A d \in CallIds \ {c} : calls[d].pc = "idle")
         => tasks'[calls[c].id] \in
              {StatusWritten(tasks[calls[c].id], calls[c].task.status),
               tasks[calls[c].id]}]_vars

\* C38: right after a successful createTask the creator can view the task
\* created, whatever the creator's role and whichever assignee and team
\* createTask has accepted.
CreatorCanViewCreatedTask ==
  Done("createTask") => getTaskById(last.res.id, last.actor).kind = "ok"

\* C39: a successful registration without a token creates a user with role
\* admin and exactly one team, owned by that user and with that user as its
\* only member; no other user and no existing team changes.
PlainRegistrationCreatesAdminAndTeam ==
  [][\A p \in RegIds :
       (regs[p].pc = "commit" /\ regs'[p].pc = "done" /\ regs[p].token = 0)
         => LET u == regs'[p].userId
                T == regs'[p].teamId
            IN /\ regs'[p].res.kind = "ok"
               /\ ~UserExists(u) /\ users'[u].role = ADMIN
               /\ \A v \in UserIds \ {u} : users'[v] = users[v]
               /\ ~TeamExists(T) /\ teams'[T] = [owner |-> u, members |-> {u}]
               /\ \A t \in TeamIds \ {T} : teams'[t] = teams[t]]_vars

\* a registration without a token has returned an admin who owns a team of
\* their own, next to a team that existed before
AdminRegisteredNextToTeam ==
  \E p \in RegIds :
    /\ Succeeded(p) /\ regs[p].token = 0
    /\ users[regs[p].userId].role = ADMIN
    /\ teams[regs[p].teamId] = [owner |-> regs[p].userId, members |-> {regs[p].userId}]
    /\ \E t \in TeamIds \ {regs[p].teamId} : TeamExists(t) /\ t < regs[p].teamId

====
